---- MODULE Spec2Model ----
(***************************************************************************)
(* Model of the Streamdal shim of streamdal/ibm-sarama (package sarama,    *)
(* the shim source file) and of the consumer-group handler of the example  *)
(* program examples/go-kafkacat-streamdal.                                 *)
(*                                                                         *)
(* Conventions.  A Go pointer or interface is an option: Nil is the nil    *)
(* pointer and Ptr(x) points at x.  A []byte is a short string; the nil    *)
(* slice is the empty string.  The text of an error or of a status message *)
(* is a sequence of fragments, so that Go's string concatenation is \o and *)
(* "contains" is "has as a contiguous sub-sequence"; the empty string is   *)
(* the empty sequence.                                                     *)
(***************************************************************************)
EXTENDS Naturals, Sequences, FiniteSets

VARIABLES
    env,        \* the process environment: variable name -> Nil | Ptr(string)
    sc,         \* the engine handle (*streamdal.Streamdal): NilHandle or ActiveHandle
    setupErr,   \* the error the last streamdalSetup returned (NoErr: none)
    nSetup,     \* calls of streamdalSetup so far
    nNew,       \* calls of streamdal.New so far
    inflight,   \* the call about to enter the shim (kind "none": no call)
    out,        \* what the last call into the shim did and returned (cleared when the next arrives)
    gateCalls,  \* calls of streamdalProcess with an active handle so far
    engineReqs, \* calls of sc.Process so far
    messages,   \* the claim's Messages() channel
    chanClosed, \* the Messages() channel has been closed
    ctxDone,    \* session.Context() is cancelled
    pcClaim,    \* where ConsumeClaim is: "loop", or returned by the "closed" or the "done" case
    marked,     \* messages ConsumeClaim has handled (logged and marked) so far
    fed,        \* messages put on a Messages() channel so far
    run,        \* runReader's run flag
    pcSig,      \* runReader's signal goroutine: "wait", "flagged" (run = false done) or "cancelled"
    pcReader    \* where runReader is: "consume" (inside cg.Consume) or "closed"

shimVars  == <<inflight, out, gateCalls, engineReqs>>
setupVars == <<env, sc, setupErr, nSetup, nNew>>
claimVars == <<messages, chanClosed, ctxDone, pcClaim, marked, fed, run, pcSig, pcReader>>
vars == <<env, sc, setupErr, nSetup, nNew, inflight, out, gateCalls, engineReqs,
          messages, chanClosed, ctxDone, pcClaim, marked, fed, run, pcSig, pcReader>>

----------------------------------------------------------------------------
(* Bounds of the model. *)
MaxCalls == 2
MaxSetup == 3
MaxMsgs  == 3
MaxChan  == 2

----------------------------------------------------------------------------
(* Options, strings, errors. *)
Nil == <<>>
Ptr(x) == <<x>>
Deref(p) == p[1]

NoErr == Nil
ErrorOf(text) == Ptr(text)

\* s has t as a contiguous sub-sequence (strings.Contains on fragment sequences).
Contains(s, t) ==
    \E i \in 0..Len(s) : i + Len(t) <= Len(s) /\ SubSeq(s, i + 1, i + Len(t)) = t

\* fmt.Errorf(prefix + "%w", err): the prefix, then the wrapped error's text.
Wrap(prefix, err) == ErrorOf(<<prefix>> \o Deref(err))

ptrStr(s) == IF s = Nil THEN <<>> ELSE Deref(s)

----------------------------------------------------------------------------
(* Constants of the shim. *)
StreamdalEnvAddress     == "STREAMDAL_ADDRESS"
StreamdalEnvAuthToken   == "STREAMDAL_AUTH_TOKEN"
StreamdalEnvServiceName == "STREAMDAL_SERVICE_NAME"
StreamdalDefaultComponentName == "kafka"
StreamdalDefaultOperationName == "unknown"

EnvNames == {StreamdalEnvAddress, StreamdalEnvAuthToken, StreamdalEnvServiceName}

NilHandle    == "nil"
ActiveHandle == "active"
Handles == {NilHandle, ActiveHandle}

OperationTypeConsumer == "consumer"
OperationTypeProducer == "producer"
OperationTypes == {OperationTypeConsumer, OperationTypeProducer}

ExecStatusUnset == "EXEC_STATUS_UNSET"
ExecStatusTrue  == "EXEC_STATUS_TRUE"
ExecStatusFalse == "EXEC_STATUS_FALSE"
ExecStatusError == "EXEC_STATUS_ERROR"
ExecStatuses == {ExecStatusUnset, ExecStatusTrue, ExecStatusFalse, ExecStatusError}

----------------------------------------------------------------------------
(* The inputs the model draws from. *)
Topics   == {"", "orders"}
Names    == {"", "custom"}
Payloads == {"a", "b"}
NilBytes == ""

\* *streamdal.Audience as the caller sets it in a runtime config.
Audiences == {Nil} \cup
    {Ptr([ComponentName |-> c, OperationName |-> o]) : c \in Names, o \in Names}

\* *StreamdalRuntimeConfig
RuntimeConfigs == {Nil} \cup
    {Ptr([StrictErrors |-> s, Audience |-> a]) : s \in BOOLEAN, a \in Audiences}

\* A message value.  "nil": the nil Encoder interface; "bytes": a ByteEncoder
\* (producer) or the raw []byte (consumer); "bad": an Encoder whose Encode fails.
NilValue     == [kind |-> "nil", data |-> NilBytes]
BytesValue(b) == [kind |-> "bytes", data |-> b]
BadValue     == [kind |-> "bad", data |-> NilBytes]
ByteEncoder(b) == BytesValue(b)
ProducerValues == {NilValue, BadValue} \cup {BytesValue(b) : b \in Payloads}
ConsumerValues == {BytesValue(b) : b \in Payloads}

\* What the engine may answer to one request.
StatusMessages == {Nil, Ptr(<<"timeout">>)}
Responses == [Status : ExecStatuses, Data : {"a", "X"}, StatusMessage : StatusMessages]
NoResp == [Status |-> "none", Data |-> NilBytes, StatusMessage |-> Nil]

----------------------------------------------------------------------------
(* streamdalSetup *)

\* os.Getenv: the value of the variable, "" when it is not set.
Getenv(e, name) == IF e[name] = Nil THEN "" ELSE Deref(e[name])

\* streamdalSetup with the service-name test left out.
streamdalSetup_NoServiceCheck(e, newOk) ==
    IF Getenv(e, StreamdalEnvAddress) = ""
    THEN [sc |-> NilHandle, news |-> 0,
          err |-> ErrorOf(<<StreamdalEnvAddress, " env var is not set">>)]
    ELSE IF Getenv(e, StreamdalEnvAuthToken) = ""
    THEN [sc |-> NilHandle, news |-> 0,
          err |-> ErrorOf(<<StreamdalEnvAuthToken, " env var is not set">>)]
    ELSE IF ~newOk
    THEN [sc |-> NilHandle, news |-> 1,
          err |-> ErrorOf(<<"unable to create streamdal client: ", "streamdal.New failed">>)]
    ELSE [sc |-> ActiveHandle, news |-> 1, err |-> NoErr]

\* streamdalSetup() under environment e, where streamdal.New succeeds iff newOk.
\* news: how many times streamdal.New was called.
streamdalSetup(e, newOk) ==
    IF Getenv(e, StreamdalEnvAddress) = ""
    THEN [sc |-> NilHandle, news |-> 0,
          err |-> ErrorOf(<<StreamdalEnvAddress, " env var is not set">>)]
    ELSE IF Getenv(e, StreamdalEnvAuthToken) = ""
    THEN [sc |-> NilHandle, news |-> 0,
          err |-> ErrorOf(<<StreamdalEnvAuthToken, " env var is not set">>)]
    ELSE IF Getenv(e, StreamdalEnvServiceName) = ""
    THEN [sc |-> NilHandle, news |-> 0,
          err |-> ErrorOf(<<StreamdalEnvServiceName, " env var is not set">>)]
    ELSE IF ~newOk
    THEN [sc |-> NilHandle, news |-> 1,
          err |-> ErrorOf(<<"unable to create streamdal client: ", "streamdal.New failed">>)]
    ELSE [sc |-> ActiveHandle, news |-> 1, err |-> NoErr]

----------------------------------------------------------------------------
(* streamdalGenerateAudience *)

\* streamdalGenerateAudience taking the override as a pair: the component is
\* overridden only inside the test of the operation name.
streamdalGenerateAudience_Paired(ot, topic, src) ==
    LET fromTopic == IF topic # "" THEN topic ELSE StreamdalDefaultOperationName
        override  == src # Nil /\ Deref(src).Audience # Nil
        aud       == Deref(Deref(src).Audience)
        both      == override /\ aud.OperationName # ""
    IN  [OperationType |-> ot,
         OperationName |-> IF both THEN aud.OperationName ELSE fromTopic,
         ComponentName |-> IF both /\ aud.ComponentName # ""
                           THEN aud.ComponentName ELSE StreamdalDefaultComponentName]

streamdalGenerateAudience(ot, topic, src) ==
    LET fromTopic == IF topic # "" THEN topic ELSE StreamdalDefaultOperationName
        override  == src # Nil /\ Deref(src).Audience # Nil
        aud       == Deref(Deref(src).Audience)
    IN  [OperationType |-> ot,
         OperationName |-> IF override /\ aud.OperationName # ""
                           THEN aud.OperationName ELSE fromTopic,
         ComponentName |-> IF override /\ aud.ComponentName # ""
                           THEN aud.ComponentName ELSE StreamdalDefaultComponentName]

----------------------------------------------------------------------------
(* streamdalProcess *)

\* The sc == nil test left out.
Disabled_Never(h) == FALSE

\* The sc == nil test that opens streamdalProcess and both adapters.
Disabled(h) == h = NilHandle

\* The strict-errors test inverted.
Strict_Inverted(src) == src # Nil /\ ~Deref(src).StrictErrors

\* src != nil && src.StrictErrors
Strict(src) == src # Nil /\ Deref(src).StrictErrors

\* sc.Process called again after an engine error.
Submit_Retry(req, resp) ==
    IF resp.Status = ExecStatusError THEN <<req, req>> ELSE <<req>>

\* The calls of sc.Process one streamdalProcess makes for request req, answered resp.
Submit(req, resp) == <<req>>

\* The success case keeping the caller's data.
OnSuccess_KeepInput(data, resp) == data

\* case ExecStatusTrue, ExecStatusFalse: data = resp.Data
OnSuccess(data, resp) == resp.Data

\* The error case taking resp.Data in lenient mode.
OnEngineError_TakeResp(src, data, resp) ==
    IF src # Nil /\ Deref(src).StrictErrors
    THEN [data |-> NilBytes,
          err |-> ErrorOf(<<"streamdal.Process() error: ">> \o ptrStr(resp.StatusMessage))]
    ELSE [data |-> resp.Data, err |-> NoErr]

\* case ExecStatusError: the error in strict mode, else data as it was.
OnEngineError(src, data, resp) ==
    IF Strict(src)
    THEN [data |-> NilBytes,
          err |-> ErrorOf(<<"streamdal.Process() error: ">> \o ptrStr(resp.StatusMessage))]
    ELSE [data |-> data, err |-> NoErr]

\* streamdalProcess(h, ot, src, topic, data) where the engine answers resp.
\* reqs: the requests submitted to the engine; src: the override after the call.
streamdalProcess(h, ot, src, topic, data, resp) ==
    IF Disabled(h)
    THEN [data |-> data, err |-> NoErr, reqs |-> <<>>, src |-> src]
    ELSE LET aud == streamdalGenerateAudience(ot, topic, src)
             req == [ComponentName |-> aud.ComponentName,
                     OperationType |-> ot,
                     OperationName |-> aud.OperationName,
                     Data          |-> data]
             r   == CASE resp.Status \in {ExecStatusTrue, ExecStatusFalse} ->
                            [data |-> OnSuccess(data, resp), err |-> NoErr]
                      [] resp.Status = ExecStatusError ->
                            OnEngineError(src, data, resp)
                      [] OTHER -> [data |-> data, err |-> NoErr]
         IN  [data |-> r.data, err |-> r.err, reqs |-> Submit(req, resp), src |-> src]

----------------------------------------------------------------------------
(* The adapters *)

\* Encoder.Encode of a non-nil message value.
Encode(v) ==
    IF v.kind = "bad"
    THEN [data |-> NilBytes, err |-> ErrorOf(<<"encode failed">>)]
    ELSE [data |-> v.data, err |-> NoErr]

\* The encode error ignored.
EncodeFailed_Ignored(enc) == FALSE

\* if err != nil after msg.Value.Encode()
EncodeFailed(enc) == enc.err # NoErr

\* The arguments of one streamdalProcess call.
GateArgs(ot, src, topic, data) == [ot |-> ot, src |-> src, topic |-> topic, data |-> data]

\* What a call that never reaches streamdalProcess leaves behind.
Result(panicked, ret, err, value, src) ==
    [panicked |-> panicked, ret |-> ret, err |-> err, value |-> value, src |-> src,
     gate |-> Nil, reqs |-> <<>>]

\* What a call that went through streamdalProcess (result g, arguments args) leaves.
Gated(ret, err, value, g, args) ==
    [panicked |-> FALSE, ret |-> ret, err |-> err, value |-> value, src |-> g.src,
     gate |-> Ptr(args), reqs |-> g.reqs]

\* streamdalProcessForProducer(h, msg) where the engine answers resp.
\* ret: "msg" when the message pointer is returned, "nil" when nil is;
\* value: msg.Value after the call; panicked: the call panicked (no return).
streamdalProcessForProducer(h, msg, resp) ==
    IF Disabled(h)
    THEN Result(FALSE, "msg", NoErr, msg.Value, msg.StreamdalRuntimeConfig)
    ELSE IF msg.Value = NilValue
    THEN Result(TRUE, "nil", NoErr, msg.Value, msg.StreamdalRuntimeConfig)
    ELSE LET enc == Encode(msg.Value) IN
         IF EncodeFailed(enc)
         THEN Result(FALSE, "nil",
                     Wrap("unable to encode msg value in streamdalProcessForProducer: ", enc.err),
                     msg.Value, msg.StreamdalRuntimeConfig)
         ELSE LET g == streamdalProcess(h, OperationTypeProducer,
                                        msg.StreamdalRuntimeConfig, msg.Topic, enc.data, resp)
                  args == GateArgs(OperationTypeProducer, msg.StreamdalRuntimeConfig,
                                   msg.Topic, enc.data)
              IN  IF g.err # NoErr
                  THEN Gated("nil",
                             Wrap("streamdalProcess error in streamdalProcessForProducer: ", g.err),
                             msg.Value, g, args)
                  ELSE Gated("msg", NoErr, ByteEncoder(g.data), g, args)

\* The consumer adapter calling streamdalProcess with a nil runtime config.
streamdalProcessForConsumer_DropSrc(h, msg, src, resp) ==
    IF Disabled(h)
    THEN Result(FALSE, "msg", NoErr, msg.Value, src)
    ELSE LET g == streamdalProcess(h, OperationTypeConsumer, Nil, msg.Topic,
                                   msg.Value.data, resp)
             args == GateArgs(OperationTypeConsumer, Nil, msg.Topic, msg.Value.data)
         IN  IF g.err # NoErr
             THEN Gated("nil",
                        Wrap("streamdalProcess error in streamdalProcessForConsumer: ", g.err),
                        msg.Value, [g EXCEPT !.src = src], args)
             ELSE Gated("msg", NoErr, BytesValue(g.data), [g EXCEPT !.src = src], args)

\* streamdalProcessForConsumer(h, msg, src) where the engine answers resp.
streamdalProcessForConsumer(h, msg, src, resp) ==
    IF Disabled(h)
    THEN Result(FALSE, "msg", NoErr, msg.Value, src)
    ELSE LET g == streamdalProcess(h, OperationTypeConsumer, src, msg.Topic,
                                   msg.Value.data, resp)
             args == GateArgs(OperationTypeConsumer, src, msg.Topic, msg.Value.data)
         IN  IF g.err # NoErr
             THEN Gated("nil",
                        Wrap("streamdalProcess error in streamdalProcessForConsumer: ", g.err),
                        msg.Value, g, args)
             ELSE Gated("msg", NoErr, BytesValue(g.data), g, args)

\* The send that follows the producer adapter: the message goes on to the
\* transport only when the adapter returned it.
HandOff(res) == IF ~res.panicked /\ res.err = NoErr /\ res.ret = "msg"
                THEN Ptr(res.value) ELSE Nil

----------------------------------------------------------------------------
(* State of the shim: the call in flight and the record of the last call. *)

NoCall == [kind |-> "none", ot |-> "none", topic |-> "", value |-> NilValue, src |-> Nil]

NoOut == [call |-> NoCall, resp |-> NoResp,
          res |-> Result(FALSE, "nil", NoErr, NilValue, Nil), handed |-> Nil]

\* The environment: each variable unset, set to "", or set to a value.
EnvVals == {Nil, Ptr(""), Ptr("v")}
Envs == [EnvNames -> EnvVals]
FullEnv  == [n \in EnvNames |-> Ptr("v")]
EmptyEnv == [n \in EnvNames |-> Nil]

ShimIdle  == inflight = NoCall /\ out = NoOut /\ gateCalls = 0 /\ engineReqs = 0
ClaimIdle == /\ messages = <<>> /\ chanClosed = FALSE /\ ctxDone = FALSE
             /\ pcClaim = "loop" /\ marked = 0 /\ fed = 0
             /\ run = TRUE /\ pcSig = "wait" /\ pcReader = "consume"

\* The process before streamdalSetup has run, under any environment.
SetupInit ==
    /\ env \in Envs
    /\ sc = NilHandle /\ setupErr = NoErr /\ nSetup = 0 /\ nNew = 0
    /\ ShimIdle /\ ClaimIdle

\* The process after construction: streamdalSetup has run once, under a full
\* environment (handle active) or an empty one (handle nil).
Init ==
    /\ env \in {FullEnv, EmptyEnv}
    /\ sc = streamdalSetup(env, TRUE).sc
    /\ setupErr = streamdalSetup(env, TRUE).err
    /\ nSetup = 1
    /\ nNew = streamdalSetup(env, TRUE).news
    /\ ShimIdle /\ ClaimIdle

----------------------------------------------------------------------------
(* Actions of the shim. *)

\* A producer or consumer is constructed with EnableStreamdal: streamdalSetup runs.
Setup ==
    /\ nSetup < MaxSetup
    /\ \E newOk \in BOOLEAN :
         LET r == streamdalSetup(env, newOk) IN
           /\ sc' = r.sc
           /\ setupErr' = r.err
           /\ nNew' = nNew + r.news
    /\ nSetup' = nSetup + 1
    /\ UNCHANGED <<env, shimVars, claimVars>>

Crashed == out.res.panicked

\* The caller builds a ProducerMessage and sends it.
NewProducerMessage ==
    /\ ~Crashed /\ inflight = NoCall /\ gateCalls < MaxCalls
    /\ \E t \in Topics, v \in ProducerValues, s \in RuntimeConfigs :
         inflight' = [kind |-> "produce", ot |-> OperationTypeProducer,
                      topic |-> t, value |-> v, src |-> s]
    /\ out' = NoOut
    /\ UNCHANGED <<setupVars, gateCalls, engineReqs, claimVars>>

\* A message is fetched and is about to be passed to the consumer adapter.
NewConsumerMessage ==
    /\ ~Crashed /\ inflight = NoCall /\ gateCalls < MaxCalls
    /\ \E t \in Topics, v \in ConsumerValues, s \in RuntimeConfigs :
         inflight' = [kind |-> "consume", ot |-> OperationTypeConsumer,
                      topic |-> t, value |-> v, src |-> s]
    /\ out' = NoOut
    /\ UNCHANGED <<setupVars, gateCalls, engineReqs, claimVars>>

\* streamdalProcess is about to be called directly.
NewProcessCall ==
    /\ ~Crashed /\ inflight = NoCall /\ gateCalls < MaxCalls
    /\ \E o \in OperationTypes, t \in Topics, v \in ConsumerValues, s \in RuntimeConfigs :
         inflight' = [kind |-> "process", ot |-> o, topic |-> t, value |-> v, src |-> s]
    /\ out' = NoOut
    /\ UNCHANGED <<setupVars, gateCalls, engineReqs, claimVars>>

\* The call in flight has run with result res, the engine answering resp.
Finish(res, resp, handed) ==
    /\ out' = [call |-> inflight,
               resp |-> IF res.reqs = <<>> THEN NoResp ELSE resp,
               res |-> res, handed |-> handed]
    /\ gateCalls' = gateCalls + (IF res.gate # Nil /\ ~Disabled(sc) THEN 1 ELSE 0)
    /\ engineReqs' = engineReqs + Len(res.reqs)
    /\ inflight' = NoCall
    /\ UNCHANGED <<setupVars, claimVars>>

Produce ==
    /\ inflight.kind = "produce"
    /\ \E resp \in Responses :
         LET msg == [Topic |-> inflight.topic, Value |-> inflight.value,
                     StreamdalRuntimeConfig |-> inflight.src]
             res == streamdalProcessForProducer(sc, msg, resp)
         IN  Finish(res, resp, HandOff(res))

Consume ==
    /\ inflight.kind = "consume"
    /\ \E resp \in Responses :
         LET msg == [Topic |-> inflight.topic, Value |-> inflight.value]
             res == streamdalProcessForConsumer(sc, msg, inflight.src, resp)
         IN  Finish(res, resp, Nil)

Process ==
    /\ inflight.kind = "process"
    /\ \E resp \in Responses :
         LET g == streamdalProcess(sc, inflight.ot, inflight.src, inflight.topic,
                                   inflight.value.data, resp)
             res == Gated("data", g.err, BytesValue(g.data), g,
                          GateArgs(inflight.ot, inflight.src, inflight.topic,
                                   inflight.value.data))
         IN  Finish(res, resp, Nil)

Next == NewProducerMessage \/ NewConsumerMessage \/ NewProcessCall
        \/ Produce \/ Consume \/ Process

Spec == Init /\ [][Next]_vars

SetupNext == Setup

SetupSpec == SetupInit /\ [][SetupNext]_vars

----------------------------------------------------------------------------
(* The example's consumer: runReader and Consumer.ConsumeClaim. *)

\* A message arrives on the claim's Messages() channel.
Feed ==
    /\ pcReader = "consume" /\ ~chanClosed
    /\ Len(messages) < MaxChan /\ fed < MaxMsgs
    /\ \E v \in Payloads : messages' = Append(messages, v)
    /\ fed' = fed + 1
    /\ UNCHANGED <<setupVars, shimVars, chanClosed, ctxDone, pcClaim, marked, run,
                   pcSig, pcReader>>

\* The Messages() channel is closed (the claim is released).
CloseChan ==
    /\ pcReader = "consume" /\ ~chanClosed
    /\ chanClosed' = TRUE
    /\ UNCHANGED <<setupVars, shimVars, messages, ctxDone, pcClaim, marked, fed, run,
                   pcSig, pcReader>>

\* runReader's goroutine receives a termination signal: run = false ...
SignalFlag ==
    /\ pcSig = "wait"
    /\ run' = FALSE
    /\ pcSig' = "flagged"
    /\ UNCHANGED <<setupVars, shimVars, messages, chanClosed, ctxDone, pcClaim, marked,
                   fed, pcReader>>

\* ... and then cancel().
SignalCancel ==
    /\ pcSig = "flagged"
    /\ ctxDone' = TRUE
    /\ pcSig' = "cancelled"
    /\ UNCHANGED <<setupVars, shimVars, messages, chanClosed, pcClaim, marked, fed, run,
                   pcReader>>

\* ConsumeClaim's select takes a message from the channel: log it, mark it.
ClaimRecv ==
    /\ pcClaim = "loop" /\ messages # <<>>
    /\ messages' = Tail(messages)
    /\ marked' = marked + 1
    /\ UNCHANGED <<setupVars, shimVars, chanClosed, ctxDone, pcClaim, fed, run, pcSig,
                   pcReader>>

\* ConsumeClaim's select finds the channel closed and drained: return nil.
ClaimRecvClosed ==
    /\ pcClaim = "loop" /\ messages = <<>> /\ chanClosed
    /\ pcClaim' = "closed"
    /\ UNCHANGED <<setupVars, shimVars, messages, chanClosed, ctxDone, marked, fed, run,
                   pcSig, pcReader>>

\* The Done case handling a pending message on its way out.
ClaimDone_Drain ==
    /\ pcClaim = "loop" /\ ctxDone
    /\ pcClaim' = "done"
    /\ messages' = IF messages # <<>> THEN Tail(messages) ELSE messages
    /\ marked' = IF messages # <<>> THEN marked + 1 ELSE marked
    /\ UNCHANGED <<setupVars, shimVars, chanClosed, ctxDone, fed, run, pcSig, pcReader>>

\* ConsumeClaim's select takes <-session.Context().Done(): return nil.
ClaimDone ==
    /\ pcClaim = "loop" /\ ctxDone
    /\ pcClaim' = "done"
    /\ UNCHANGED <<setupVars, shimVars, messages, chanClosed, ctxDone, marked, fed, run,
                   pcSig, pcReader>>

\* What runReader's loop may read in run: the flag, or, while the signal
\* goroutine is between its write and cancel(), the value before the write.
RunSeen == {run} \cup (IF pcSig = "flagged" THEN {TRUE} ELSE {})

\* cg.Consume returns context.Canceled: run = false, break, close.
ReaderCanceled ==
    /\ pcReader = "consume" /\ pcClaim # "loop" /\ ctxDone
    /\ run' = FALSE
    /\ pcReader' = "closed"
    /\ UNCHANGED <<setupVars, shimVars, messages, chanClosed, ctxDone, pcClaim, marked,
                   fed, pcSig>>

\* cg.Consume returns nil or another error and run reads true: Consume again.
ReaderAgain ==
    /\ pcReader = "consume" /\ pcClaim # "loop" /\ TRUE \in RunSeen
    /\ pcClaim' = "loop"
    /\ messages' = <<>>
    /\ chanClosed' = FALSE
    /\ UNCHANGED <<setupVars, shimVars, ctxDone, marked, fed, run, pcSig, pcReader>>

\* cg.Consume returns nil or another error and run reads false: close.
ReaderStop ==
    /\ pcReader = "consume" /\ pcClaim # "loop" /\ FALSE \in RunSeen
    /\ pcReader' = "closed"
    /\ UNCHANGED <<setupVars, shimVars, messages, chanClosed, ctxDone, pcClaim, marked,
                   fed, run, pcSig>>

ClaimNext == Feed \/ CloseChan \/ SignalFlag \/ SignalCancel
             \/ ClaimRecv \/ ClaimRecvClosed \/ ClaimDone
             \/ ReaderCanceled \/ ReaderAgain \/ ReaderStop

\* A runnable goroutine runs, and Go's select chooses at random among the
\* ready cases, so a case that stays ready is eventually taken.
ClaimFairness == WF_vars(ClaimRecv) /\ WF_vars(ClaimRecvClosed) /\ WF_vars(ClaimDone)

ClaimSpec == Init /\ [][ClaimNext]_vars /\ ClaimFairness

----------------------------------------------------------------------------
(* Properties. *)

\* The last call went through streamdalProcess with an active handle.
GateRan == out.res.gate # Nil /\ sc = ActiveHandle
Gate == Deref(out.res.gate)
AnsweredError == GateRan /\ out.resp.Status = ExecStatusError
StrictSet(src) == src # Nil /\ Deref(src).StrictErrors

\* C1 (fail-open): when the handle is active, the engine answers engine-error
\* and the override is absent or not strict, the call returns the payload it
\* was given, whatever the response carried, and no error.
C1_FailOpen ==
    (AnsweredError /\ ~StrictSet(Gate.src)) =>
        /\ out.res.err = NoErr
        /\ out.res.value = BytesValue(Gate.data)
        /\ (out.call.kind \in {"consume", "process"} => Gate.data = out.call.value.data)
        /\ (out.call.kind = "produce" => out.call.value = BytesValue(Gate.data))

W_C1 ==
    /\ AnsweredError /\ out.call.kind = "process"
    /\ out.call.src # Nil /\ ~Deref(out.call.src).StrictErrors
    /\ out.resp.Data = "X" /\ out.resp.StatusMessage # Nil
    /\ out.call.value = BytesValue("a")
    /\ out.res.value = BytesValue("a") /\ out.res.err = NoErr

\* C2 (fail-closed): when the handle is active, the engine answers engine-error
\* and the override is strict, streamdalProcess returns an error whose text
\* contains the status message and no payload; the producer adapter returns an
\* error and no message, leaves msg.Value as it was, and nothing is handed on.
C2_FailClosed ==
    (AnsweredError /\ StrictSet(Gate.src)) =>
        /\ out.res.err # NoErr
        /\ Contains(Deref(out.res.err), ptrStr(out.resp.StatusMessage))
        /\ (out.call.kind = "process" => out.res.value = BytesValue(NilBytes))
        /\ (out.call.kind = "produce" =>
              /\ out.res.ret = "nil"
              /\ out.res.value = out.call.value
              /\ out.handed = Nil)

W_C2 ==
    /\ AnsweredError /\ out.call.kind = "produce" /\ StrictSet(out.call.src)
    /\ out.resp.StatusMessage = Ptr(<<"timeout">>)
    /\ out.res.ret = "nil" /\ out.handed = Nil
    /\ Contains(Deref(out.res.err), <<"timeout">>)

\* C3 (pass-through when disabled): with a nil handle every call returns what
\* it was given with no error (streamdalProcess the payload, the adapters the
\* same message with its value untouched), for every override, and no engine
\* request is ever made.
C3_PassThrough ==
    (sc = NilHandle /\ out.call.kind # "none") =>
        /\ ~out.res.panicked
        /\ out.res.err = NoErr
        /\ out.res.value = out.call.value
        /\ (out.call.kind \in {"produce", "consume"} => out.res.ret = "msg")
        /\ (out.call.kind = "produce" => out.handed = Ptr(out.call.value))
        /\ out.res.reqs = <<>>
        /\ engineReqs = 0

W_C3 ==
    /\ sc = NilHandle /\ out.call.kind = "produce" /\ StrictSet(out.call.src)
    /\ out.call.value = BytesValue("b")
    /\ out.res.ret = "msg" /\ out.res.value = BytesValue("b")

\* C4 (success is authoritative): on success-with-data or success-no-change,
\* whatever the strict-errors flag, the call returns the payload of the
\* response with no error and the adapter replaces the message's value by it.
C4_SuccessReplaces ==
    (GateRan /\ out.resp.Status \in {ExecStatusTrue, ExecStatusFalse}) =>
        /\ out.res.err = NoErr
        /\ out.res.value = BytesValue(out.resp.Data)
        /\ (out.call.kind \in {"produce", "consume"} => out.res.ret = "msg")
        /\ (out.call.kind = "produce" => out.handed = Ptr(BytesValue(out.resp.Data)))

W_C4 ==
    /\ GateRan /\ out.call.kind = "produce" /\ out.call.topic = "orders"
    /\ out.call.src = Nil /\ out.call.value = BytesValue("a")
    /\ out.resp.Status = ExecStatusTrue /\ out.resp.Data = "X"
    /\ out.res.value = BytesValue("X") /\ out.handed = Ptr(BytesValue("X"))

\* The override's field, blank when there is no override or no audience in it.
OverrideOperation(src) ==
    IF src = Nil THEN "" ELSE
    IF Deref(src).Audience = Nil THEN "" ELSE Deref(Deref(src).Audience).OperationName
OverrideComponent(src) ==
    IF src = Nil THEN "" ELSE
    IF Deref(src).Audience = Nil THEN "" ELSE Deref(Deref(src).Audience).ComponentName

\* C5 (audience resolution): the request carries operation name = the
\* override's if non-blank, else the topic if non-empty, else "unknown";
\* component name = the override's if non-blank, else "kafka"; operation
\* type = the direction of the call.
C5_Audience ==
    GateRan =>
        /\ Len(out.res.reqs) >= 1
        /\ \A i \in 1..Len(out.res.reqs) :
             LET req == out.res.reqs[i] IN
               /\ req.OperationName =
                    (IF OverrideOperation(Gate.src) # "" THEN OverrideOperation(Gate.src)
                     ELSE IF Gate.topic # "" THEN Gate.topic ELSE "unknown")
               /\ req.ComponentName =
                    (IF OverrideComponent(Gate.src) # "" THEN OverrideComponent(Gate.src)
                     ELSE "kafka")
               /\ req.OperationType = Gate.ot
               /\ req.OperationName # "" /\ req.ComponentName # ""

W_C5 ==
    /\ GateRan /\ out.call.topic = "orders"
    /\ OverrideComponent(out.call.src) = "custom" /\ OverrideOperation(out.call.src) = ""
    /\ out.call.src # Nil
    /\ out.res.reqs[1].ComponentName = "custom" /\ out.res.reqs[1].OperationName = "orders"

\* C6 as stated: every producer call whose value cannot be encoded returns
\* the encoding error and no message, and the engine is not contacted for it.
C6_EncodeErrorAlways ==
    (out.call.kind = "produce" /\ out.call.value.kind = "bad") =>
        /\ out.res.ret = "nil"
        /\ out.res.err # NoErr
        /\ out.res.reqs = <<>>

\* C6 amended: a producer call with an active handle whose value's Encode
\* returns an error returns that error, wrapped, and no message, leaves the
\* value as it was, and neither streamdalProcess nor the engine is reached for
\* it; with a nil handle the same message is returned with no error, Encode
\* is not called, and the engine is not contacted either.
C6_EncodeErrorFirst ==
    (out.call.kind = "produce" /\ out.call.value.kind = "bad") =>
        /\ out.res.gate = Nil
        /\ out.res.reqs = <<>>
        /\ out.res.value = out.call.value
        /\ (sc = ActiveHandle =>
              /\ out.res.ret = "nil"
              /\ out.res.err # NoErr
              /\ Contains(Deref(out.res.err), <<"encode failed">>)
              /\ out.handed = Nil)
        /\ (sc = NilHandle =>
              /\ out.res.ret = "msg"
              /\ out.res.err = NoErr)

W_C6 ==
    /\ sc = ActiveHandle /\ out.call.kind = "produce" /\ out.call.value = BadValue
    /\ out.res.err # NoErr /\ out.res.reqs = <<>>
    /\ engineReqs = 1

\* C8 as stated: on the consumer path the gate is invoked with direction
\* consumer, the message's topic, the fetched value and no override.
C8_NoOverrideOnConsumer ==
    (GateRan /\ out.call.kind = "consume") =>
        /\ Gate.ot = OperationTypeConsumer
        /\ Gate.topic = out.call.topic
        /\ Gate.data = out.call.value.data
        /\ Gate.src = Nil

\* C8 amended: on the consumer path the gate is invoked with direction
\* consumer, the message's topic, the fetched value and the runtime config
\* passed to streamdalProcessForConsumer (none only when that is nil); a
\* strict config passed there makes an engine error fail the call.
C8_ConsumerForwardsSrc ==
    (GateRan /\ out.call.kind = "consume") =>
        /\ Gate.ot = OperationTypeConsumer
        /\ Gate.topic = out.call.topic
        /\ Gate.data = out.call.value.data
        /\ Gate.src = out.call.src
        /\ (out.resp.Status = ExecStatusError /\ StrictSet(out.call.src) =>
              out.res.err # NoErr /\ out.res.ret = "nil")

W_C8 ==
    /\ GateRan /\ out.call.kind = "consume" /\ StrictSet(out.call.src)
    /\ OverrideComponent(out.call.src) = "custom"
    /\ out.resp.Status = ExecStatusError
    /\ out.res.err # NoErr
    /\ out.res.reqs[1].ComponentName = "custom"

\* C9 (no retry): every call of streamdalProcess with an active handle submits
\* exactly one engine request, also on engine-error, strict or not, so over
\* any sequence of calls the requests number the calls; and the override is
\* after the call what it was before.
C9_NoRetry ==
    /\ engineReqs = gateCalls
    /\ (GateRan => Len(out.res.reqs) = 1 /\ out.res.reqs[1].Data = Gate.data)
    /\ (out.res.gate = Nil \/ sc = NilHandle => out.res.reqs = <<>>)
    /\ out.res.src = out.call.src

W_C9 ==
    /\ AnsweredError /\ StrictSet(out.call.src)
    /\ gateCalls = MaxCalls /\ engineReqs = MaxCalls

\* Whether environment variable n is set and non-empty.
Present(n) == env[n] # Nil /\ env[n] # Ptr("")
NotSet(n) == ErrorOf(<<n, " env var is not set">>)

\* C7 (setup): after streamdalSetup, if a setting is missing or empty there is
\* no handle, the error names the first missing one in the order address,
\* auth token, service name, and streamdal.New was never called; a handle is
\* there only when all three are present and streamdal.New succeeded.
C7_Setup ==
    nSetup > 0 =>
        /\ (~Present(StreamdalEnvAddress) =>
              sc = NilHandle /\ nNew = 0 /\ setupErr = NotSet("STREAMDAL_ADDRESS"))
        /\ (Present(StreamdalEnvAddress) /\ ~Present(StreamdalEnvAuthToken) =>
              sc = NilHandle /\ nNew = 0 /\ setupErr = NotSet("STREAMDAL_AUTH_TOKEN"))
        /\ (Present(StreamdalEnvAddress) /\ Present(StreamdalEnvAuthToken)
              /\ ~Present(StreamdalEnvServiceName) =>
              sc = NilHandle /\ nNew = 0 /\ setupErr = NotSet("STREAMDAL_SERVICE_NAME"))
        /\ (sc = ActiveHandle =>
              /\ \A n \in EnvNames : Present(n)
              /\ setupErr = NoErr /\ nNew >= 1)
        /\ ((\A n \in EnvNames : Present(n)) =>
              /\ nNew = nSetup
              /\ (sc = NilHandle => setupErr # NoErr /\ \A n \in EnvNames : setupErr # NotSet(n)))

W_C7 ==
    /\ nSetup > 0
    /\ env[StreamdalEnvAddress] = Ptr("v") /\ env[StreamdalEnvAuthToken] = Ptr("v")
    /\ env[StreamdalEnvServiceName] = Ptr("")
    /\ sc = NilHandle /\ nNew = 0 /\ setupErr = NotSet("STREAMDAL_SERVICE_NAME")

\* C10 (cancellation): the step in which ConsumeClaim takes the Done case
\* handles no message and returns, no message is handled after it; and once
\* the session is cancelled or the channel closed, a running loop returns.
C10_Cancellation ==
    /\ [][ /\ (pcClaim = "loop" /\ pcClaim' = "done" =>
                 marked' = marked /\ messages' = messages)
           /\ (pcClaim = "done" /\ pcClaim' = "done" => marked' = marked) ]_vars
    /\ []((pcClaim = "loop" /\ (ctxDone \/ chanClosed)) => <>(pcClaim # "loop"))

W_C10 ==
    /\ pcClaim = "done" /\ ctxDone /\ messages # <<>> /\ marked > 0 /\ ~chanClosed

====
